---- MODULE Spec2Model ----
(***************************************************************************)
(* Model of sbom-analyzer.py: the Package record (from_purl, set_repo_url, *)
(* fill_package_metadata) and the report loop of main().                   *)
(*                                                                         *)
(* Strings are sequences of one-character strings, so that the regular     *)
(* expressions and the percent-decoding are computed character by          *)
(* character.  An optional value (Python None or a value) is a sequence of *)
(* length at most one: None is <<>>, the value v is <<v>>.                 *)
(* The alphabet of the inputs has no newline character.                    *)
(***************************************************************************)
EXTENDS Integers, Sequences, FiniteSets, TLC

\* ------------------------------------------------------------------------
\* Optional values and character classes
\* ------------------------------------------------------------------------
None == <<>>

Some(v) == <<v>>

\* Python truthiness of an optional string: None and "" are falsy.
Truthy(o) == o # None /\ o[1] # <<>>

Digits == {"0", "1", "2", "3", "4", "5", "6", "7", "8", "9"}

LowerChars == {"a", "b", "c", "d", "e", "f", "g", "h", "i", "j", "k", "l", "m",
               "n", "o", "p", "q", "r", "s", "t", "u", "v", "w", "x", "y", "z"}

UpperChars == {"A", "B", "C", "D", "E", "F", "G", "H", "I", "J", "K", "L", "M",
               "N", "O", "P", "Q", "R", "S", "T", "U", "V", "W", "X", "Y", "Z"}

\* \w of the re module
WordChars == Digits \cup LowerChars \cup UpperChars \cup {"_"}

\* [%\w/\.-] : the name group of PURL_REGEX
PurlNameChars == WordChars \cup {"%", "/", ".", "-"}

\* [0-9a-fA-F\.%] : the version group of PURL_REGEX
PurlVersionChars == Digits \cup {"a", "b", "c", "d", "e", "f",
                                 "A", "B", "C", "D", "E", "F", ".", "%"}

HexChars == Digits \cup {"a", "b", "c", "d", "e", "f", "A", "B", "C", "D", "E", "F"}

\* [/\w] : the tail of REPO_URL_REGEX
RepoTailChars == WordChars \cup {"/"}

Drop(s, n) == SubSeq(s, n + 1, Len(s))

HasPrefix(s, p) == Len(s) >= Len(p) /\ SubSeq(s, 1, Len(p)) = p

\* Length of the longest prefix of s whose characters are all in cls
\* (a greedy character-class repetition).
RECURSIVE RunLen(_, _)
RunLen(s, cls) ==
    IF s # <<>> /\ Head(s) \in cls THEN 1 + RunLen(Tail(s), cls) ELSE 0

\* Length of the longest prefix of s without the character c ([^c]*).
RECURSIVE RunLenNot(_, _)
RunLenNot(s, c) ==
    IF s # <<>> /\ Head(s) # c THEN 1 + RunLenNot(Tail(s), c) ELSE 0

\* ------------------------------------------------------------------------
\* Program constants
\* ------------------------------------------------------------------------
MAX_REGISTRY_FAILED_REQUESTS == 3

DOWNLOADS_DEPTH_DAYS == 7

CARGO == <<"c", "a", "r", "g", "o">>

HttpsPrefix == <<"h", "t", "t", "p", "s", ":", "/", "/">>

PkgPrefix == <<"p", "k", "g", ":">>

\* ------------------------------------------------------------------------
\* REPO_URL_REGEX = ^https://[\w]+\.[\w]+/([^/]+)/([^/]+)[/\w]*$
\* The result of match(): None, or Some(<<group 1, group 2>>).  No class of
\* the pattern overlaps the literal that follows it, and a shorter second
\* group only lengthens the tail that must be in [/\w], so the greedy
\* choice is the only candidate.  One operator for each part of the
\* pattern, applied to what the parts before it have left.
\* ------------------------------------------------------------------------
\* The element of a set of one element.  Only({F(x) : x \in {e}}) is F(e),
\* with e evaluated once, before F is applied.
Only(S) == CHOOSE r \in S : TRUE

\* s begins with a run of at least one character of cls, followed by c
RunThen(s, cls, c) ==
    /\ RunLen(s, cls) >= 1
    /\ RunLen(s, cls) < Len(s)
    /\ s[RunLen(s, cls) + 1] = c

\* s begins with at least one character other than c, followed by c
RunNotThen(s, c) == RunLenNot(s, c) >= 1 /\ RunLenNot(s, c) < Len(s)

\* ([^/]+)[/\w]*$ after group 1
RepoUrlName(owner, s) ==
    IF /\ RunLenNot(s, "/") >= 1
       /\ RunLen(Drop(s, RunLenNot(s, "/")), RepoTailChars)
              = Len(s) - RunLenNot(s, "/")
    THEN Some(<<owner, SubSeq(s, 1, RunLenNot(s, "/"))>>)
    ELSE None

\* ([^/]+)/([^/]+)[/\w]*$
RepoUrlOwner(s) ==
    IF RunNotThen(s, "/")
    THEN Only({RepoUrlName(owner, rest) :
                  owner \in {SubSeq(s, 1, RunLenNot(s, "/"))},
                  rest \in {Drop(s, RunLenNot(s, "/") + 1)}})
    ELSE None

\* [\w]+/([^/]+)/([^/]+)[/\w]*$
RepoUrlDomain(s) ==
    IF RunThen(s, WordChars, "/")
    THEN Only({RepoUrlOwner(rest) : rest \in {Drop(s, RunLen(s, WordChars) + 1)}})
    ELSE None

\* [\w]+\.[\w]+/([^/]+)/([^/]+)[/\w]*$
RepoUrlHost(s) ==
    IF RunThen(s, WordChars, ".")
    THEN Only({RepoUrlDomain(rest) : rest \in {Drop(s, RunLen(s, WordChars) + 1)}})
    ELSE None

REPO_URL_REGEX(u) ==
    IF HasPrefix(u, HttpsPrefix)
    THEN Only({RepoUrlHost(rest) : rest \in {Drop(u, Len(HttpsPrefix))}})
    ELSE None

\* ------------------------------------------------------------------------
\* PURL_REGEX = ^pkg:(\w+)/([%\w/\.-]+)@?([0-9a-fA-F\.%]*).*$
\* The result of match(): None, or Some(<<group 1, group 2, group 3>>).
\* The trailing .* accepts every remainder, so no group ever backtracks.
\* ------------------------------------------------------------------------
\* ([0-9a-fA-F\.%]*).*$ after groups 1 and 2 (groups) and the optional @
PurlVersion(groups, s) ==
    Some(<<groups[1], groups[2], SubSeq(s, 1, RunLen(s, PurlVersionChars))>>)

\* @?
PurlAt(s) == IF s # <<>> /\ Head(s) = "@" THEN Tail(s) ELSE s

\* ([%\w/\.-]+)@?([0-9a-fA-F\.%]*).*$ after group 1
PurlName(type, s) ==
    IF RunLen(s, PurlNameChars) >= 1
    THEN Only({PurlVersion(groups, rest) :
                  groups \in {<<type, SubSeq(s, 1, RunLen(s, PurlNameChars))>>},
                  rest \in {PurlAt(Drop(s, RunLen(s, PurlNameChars)))}})
    ELSE None

\* (\w+)/([%\w/\.-]+)@?([0-9a-fA-F\.%]*).*$
PurlType(s) ==
    IF RunThen(s, WordChars, "/")
    THEN Only({PurlName(type, rest) :
                  type \in {SubSeq(s, 1, RunLen(s, WordChars))},
                  rest \in {Drop(s, RunLen(s, WordChars) + 1)}})
    ELSE None

PURL_REGEX(p) ==
    IF HasPrefix(p, PkgPrefix)
    THEN Only({PurlType(rest) : rest \in {Drop(p, Len(PkgPrefix))}})
    ELSE None

\* ------------------------------------------------------------------------
\* urllib.parse.unquote: every %XX with two hex digits becomes the character
\* of that code; any other character is kept.
\* ------------------------------------------------------------------------
UpperHex(c) ==
    CASE c = "a" -> "A" [] c = "b" -> "B" [] c = "c" -> "C"
      [] c = "d" -> "D" [] c = "e" -> "E" [] c = "f" -> "F"
      [] OTHER -> c

\* The characters of the codes the inputs use; any other code decodes to a
\* character outside the alphabet.
PctChar(h1, h2) ==
    LET code == <<UpperHex(h1), UpperHex(h2)>>
    IN  CASE code = <<"2", "D">> -> "-"
          [] code = <<"2", "E">> -> "."
          [] code = <<"2", "F">> -> "/"
          [] code = <<"4", "0">> -> "@"
          [] code = <<"2", "5">> -> "%"
          [] OTHER -> "?"

RECURSIVE unquote(_)
unquote(s) ==
    IF s = <<>> THEN <<>>
    ELSE IF Head(s) = "%" /\ Len(s) >= 3 /\ s[2] \in HexChars /\ s[3] \in HexChars
         THEN <<PctChar(s[2], s[3])>> \o unquote(Drop(s, 3))
         ELSE <<Head(s)>> \o unquote(Tail(s))

\* ------------------------------------------------------------------------
\* class Package
\* ------------------------------------------------------------------------
\* Package.__init__ with its default arguments
Package ==
    [name |-> None, version |-> None, package_type |-> None,
     downloads |-> 0, lib_owners |-> {},
     repo_owner |-> None, repo_name |-> None, repo_url |-> None,
     last_push_date |-> None, last_push_author |-> None]

\* sbom_dict.get('version', str()) : the key may be absent
DictGetVersion(d) == IF d.version = None THEN <<>> ELSE d.version[1]

\* from_purl with the fallback of line 50 outside the `if match:` block
from_purl_fallback_unmatched(self, purl, sbom_dict) ==
    LET match == PURL_REGEX(purl)
        v == IF match = None THEN <<>> ELSE unquote(match[1][3])
        identity == IF match = None THEN self
                    ELSE [self EXCEPT !.package_type = Some(match[1][1]),
                                      !.name = Some(unquote(match[1][2]))]
    IN  IF v = <<>> /\ sbom_dict # None
        THEN [identity EXCEPT
                !.version = Some(unquote(DictGetVersion(sbom_dict[1])))]
        ELSE IF match = None THEN self
        ELSE [identity EXCEPT !.version = Some(v)]

\* from_purl with the version of the SBOM entry preferred to the one of the
\* package URL
from_purl_sbom_first(self, purl, sbom_dict) ==
    LET match == PURL_REGEX(purl)
    IN  IF match = None THEN self
        ELSE LET v == unquote(match[1][3])
             IN  [self EXCEPT
                    !.package_type = Some(match[1][1]),
                    !.name = Some(unquote(match[1][2])),
                    !.version = IF sbom_dict # None /\ sbom_dict[1].version # None
                                THEN Some(unquote(DictGetVersion(sbom_dict[1])))
                                ELSE Some(v)]

\* Package.from_purl(purl, sbom_dict); sbom_dict is None or Some(dict), and
\* every dict here has at least one key, so it is truthy.
from_purl(self, purl, sbom_dict) ==
    LET match == PURL_REGEX(purl)
    IN  IF match = None THEN self
        ELSE LET v == unquote(match[1][3])
             IN  [self EXCEPT
                    !.package_type = Some(match[1][1]),
                    !.name = Some(unquote(match[1][2])),
                    !.version = IF v = <<>> /\ sbom_dict # None
                                THEN Some(unquote(DictGetVersion(sbom_dict[1])))
                                ELSE Some(v)]

\* A line of the diagnostic stream at WARNING level.  what names the
\* message, name is the package name in it, num its number (an HTTP status
\* or an attempt number; 0 when the message has none).
Warning(what, name, num) == [what |-> what, name |-> name, num |-> num]

\* Package.set_repo_url(repo_url): the record afterwards
set_repo_url(self, repo_url) ==
    IF Truthy(repo_url)
    THEN LET match == REPO_URL_REGEX(repo_url[1])
         IN  IF match # None
             THEN [self EXCEPT !.repo_url = repo_url,
                               !.repo_owner = Some(match[1][1]),
                               !.repo_name = Some(match[1][2])]
             ELSE [self EXCEPT !.repo_url = repo_url]
    ELSE self

\* Package.set_repo_url(repo_url): the lines it logs
set_repo_url_log(self, repo_url) ==
    IF Truthy(repo_url) THEN <<>>
    ELSE <<Warning("Invalid repo URL", self.name, 0)>>

\* ------------------------------------------------------------------------
\* The registry's answers.  A call of requests.get either raises or returns
\* a response; json is None when response.json() raises, else Some(body).
\* A key a body does not have is None in the body.
\* ------------------------------------------------------------------------
Raises == [raises |-> TRUE, status_code |-> 0, json |-> None]

Response(status_code, json) ==
    [raises |-> FALSE, status_code |-> status_code, json |-> json]

\* datetime.strptime(s, CRATES_INPUT_DATE_FORMAT).  A timestamp string is
\* the sequence of the numbers of its fields: year, month, day, hour,
\* minute, second, microsecond, UTC offset in minutes.  The result is None
\* when strptime raises ValueError (a field is missing or out of range).
strptime(s) ==
    IF /\ Len(s) = 8
       /\ s[1] \in 1..9999 /\ s[2] \in 1..12 /\ s[3] \in 1..31
       /\ s[4] \in 0..23 /\ s[5] \in 0..59 /\ s[6] \in 0..61
       /\ s[7] \in 0..999999 /\ s[8] \in (-1439)..1439
    THEN Some([year |-> s[1], month |-> s[2], day |-> s[3],
               hour |-> s[4], minute |-> s[5], second |-> s[6],
               microsecond |-> s[7], utcoffset |-> s[8]])
    ELSE None

\* datetime.strftime(OUTPUT_DATE_FORMAT): year, month and day, in the
\* datetime's own offset
strftime(d) == <<d.year, d.month, d.day>>

\* The result of a step of an attempt: the record afterwards, the lines
\* logged, and the exception raised (None when the step completes).
Step(self, lines, exc) == [pkg |-> self, log |-> lines, exc |-> exc]

\* line 122: the test that selects the entry of the version history
VersionSelected(crate, version, index) == crate.num = version \/ index = 0

\* lines 123-127: record the entry's date and author, and leave the loop
RecordPush(self, crate) ==
    LET date == strptime(crate.created_at)
    IN  IF date = None THEN Step(self, <<>>, Some("ValueError"))
        ELSE Step([self EXCEPT
                     !.last_push_date = date,
                     !.last_push_author =
                         IF crate.published_by # None
                         THEN crate.published_by[1].login ELSE None],
                  <<>>, None)

\* lines 121-127: for index, crate in enumerate(data['versions'])
RECURSIVE ScanVersions(_, _, _)
ScanVersions(self, versions, index) ==
    IF versions = <<>> THEN Step(self, <<>>, None)
    ELSE IF VersionSelected(Head(versions), self.version[1], index)
         THEN RecordPush(self, Head(versions))
         ELSE ScanVersions(self, Tail(versions), index + 1)

\* lines 115-127: the body of the top-level response
TopLevel(self, response) ==
    IF response.json = None THEN Step(self, <<>>, Some("JSONDecodeError"))
    ELSE LET data == response.json[1]
         IN  IF data.crate = None THEN Step(self, <<>>, Some("KeyError"))
             ELSE LET repo_url == data.crate[1].repository
                      repo_homepage == data.crate[1].homepage
                      url == IF Truthy(repo_url) THEN repo_url ELSE repo_homepage
                      p1 == set_repo_url(self, url)
                      l1 == set_repo_url_log(self, url)
                  IN  IF ~Truthy(self.version) THEN Step(p1, l1, None)
                      ELSE IF data.versions = None
                           THEN Step(p1, l1, Some("KeyError"))
                           ELSE LET r == ScanVersions(p1, data.versions[1], 0)
                                IN  Step(r.pkg, l1 \o r.log, r.exc)

\* Package.add_lib_owner
add_lib_owner(self, lib_owner) ==
    [self EXCEPT !.lib_owners = @ \cup {lib_owner}]

\* f"{owner_login} ({owner_name})"
OwnerDescriptor(owner_login, owner_name) ==
    owner_login \o <<" ", "(">> \o owner_name \o <<")">>

\* lines 132-135: for owner in users_data['users']
RECURSIVE AddOwners(_, _)
AddOwners(self, users) ==
    IF users = <<>> THEN Step(self, <<>>, None)
    ELSE LET owner == Head(users)
         IN  IF owner.login = None \/ owner.name = None
             THEN Step(self, <<>>, Some("KeyError"))
             ELSE AddOwners(add_lib_owner(self,
                                OwnerDescriptor(owner.login[1], owner.name[1])),
                            Tail(users))

\* lines 130-137: the owners response
Owners(self, response) ==
    IF response.status_code = 200
    THEN IF response.json = None THEN Step(self, <<>>, Some("JSONDecodeError"))
         ELSE IF response.json[1].users = None
              THEN Step(self, <<>>, Some("KeyError"))
              ELSE AddOwners(self, response.json[1].users[1])
    ELSE Step(self, <<Warning("Error fetching cargo owners", self.name,
                              response.status_code)>>, None)

\* a sum over all the entries returned, without the window
RECURSIVE SumAllDownloads(_, _, _)
SumAllDownloads(self, extra_downloads, index) ==
    IF extra_downloads = <<>> THEN Step(self, <<>>, None)
    ELSE LET download == Head(extra_downloads)
         IN  IF download.downloads = None
             THEN Step(self, <<>>, Some("KeyError"))
             ELSE SumAllDownloads(
                      [self EXCEPT !.downloads = @ + download.downloads[1]],
                      Tail(extra_downloads), index + 1)

\* lines 143-146: for index, download in enumerate(...)
RECURSIVE SumDownloads(_, _, _)
SumDownloads(self, extra_downloads, index) ==
    IF extra_downloads = <<>> THEN Step(self, <<>>, None)
    ELSE IF index = DOWNLOADS_DEPTH_DAYS THEN Step(self, <<>>, None)
         ELSE LET download == Head(extra_downloads)
              IN  IF download.downloads = None
                  THEN Step(self, <<>>, Some("KeyError"))
                  ELSE SumDownloads(
                           [self EXCEPT !.downloads = @ + download.downloads[1]],
                           Tail(extra_downloads), index + 1)

\* the downloads response without the reset of line 142
DownloadsNoReset(self, response) ==
    IF response.status_code = 200
    THEN IF response.json = None THEN Step(self, <<>>, Some("JSONDecodeError"))
         ELSE LET downloads_data == response.json[1]
              IN  IF downloads_data.meta = None
                  THEN Step(self, <<>>, Some("KeyError"))
                  ELSE IF downloads_data.meta[1].extra_downloads = None
                  THEN Step(self, <<>>, Some("KeyError"))
                  ELSE SumDownloads(self,
                                    downloads_data.meta[1].extra_downloads[1], 0)
    ELSE Step(self, <<Warning("Error fetching cargo downloads", self.name,
                              response.status_code)>>, None)

\* lines 140-148: the downloads response
Downloads(self, response) ==
    IF response.status_code = 200
    THEN IF response.json = None THEN Step(self, <<>>, Some("JSONDecodeError"))
         ELSE LET reset == [self EXCEPT !.downloads = 0]
                  downloads_data == response.json[1]
              IN  IF downloads_data.meta = None
                  THEN Step(reset, <<>>, Some("KeyError"))
                  ELSE IF downloads_data.meta[1].extra_downloads = None
                  THEN Step(reset, <<>>, Some("KeyError"))
                  ELSE SumDownloads(reset,
                                    downloads_data.meta[1].extra_downloads[1], 0)
    ELSE Step(self, <<Warning("Error fetching cargo downloads", self.name,
                              response.status_code)>>, None)

\* a handler for the errors of the request alone (except requests.RequestException)
CaughtRequestErrorsOnly(exc) == exc = "ConnectionError"

\* line 151: except Exception catches every exception of an attempt
Caught(exc) == TRUE

\* line 152: the warning of the handler, with the attempt number
AttemptWarning(self, attempt) ==
    Warning("Error fetching cargo metadata", self.name, attempt + 1)

\* ------------------------------------------------------------------------
\* Bounds and input domains
\* ------------------------------------------------------------------------
\* the longest SBOM package list
MaxPackages == 2

URL_A == <<"h", "t", "t", "p", "s", ":", "/", "/", "g", ".", "c", "/", "o", "/", "r">>

URL_B == <<"h", "t", "t", "p", "s", ":", "/", "/", "h", ".", "d", "/", "p", "/", "q", "/", "x">>

URL_BAD == <<"f", "t", "p", ":", "/", "/", "b", "a", "d">>

\* a host of three labels
URL_LABELS ==
    <<"h", "t", "t", "p", "s", ":", "/", "/", "a", ".", "b", ".", "c", "/", "o", "/", "r">>

\* an extra path with a character that is neither a word character nor /
URL_DASH ==
    <<"h", "t", "t", "p", "s", ":", "/", "/", "g", ".", "c", "/", "o", "/", "r", "/", "x", "-", "y">>

\* an owner and a name with characters that are not word characters, and a
\* trailing /
URL_NAMES ==
    <<"h", "t", "t", "p", "s", ":", "/", "/", "g", ".", "c", "/", "o", "-", "p", "/", "r", ".", "s", "/">>

\* An entry of parser.get_packages(): its first external reference is
\* <<category, type, locator>>, its version key may be absent.
SbomPackage(purl, version) ==
    [externalreference |-> << <<"PACKAGE-MANAGER", "purl", purl>> >>,
     version |-> version]

SbomPackages ==
    { SbomPackage(<<"p", "k", "g", ":", "c", "a", "r", "g", "o", "/", "f", "@", "1", ".", "0">>, Some(<<"1", ".", "0">>)),
      SbomPackage(<<"p", "k", "g", ":", "c", "a", "r", "g", "o", "/", "g">>, None),
      SbomPackage(<<"p", "k", "g", ":", "n", "p", "m", "/", "n", "@", "2", ".", "0">>, Some(<<"2", ".", "0">>)),
      SbomPackage(<<"n", "o", "t", "-", "a", "-", "p", "u", "r", "l">>, None) }

\* every list of at most n entries
RECURSIVE PackageLists(_)
PackageLists(n) ==
    IF n = 0 THEN {<<>>}
    ELSE LET shorter == PackageLists(n - 1)
         IN  shorter \cup {Append(l, e) : l \in {x \in shorter : Len(x) = n - 1},
                                          e \in SbomPackages}

\* package URLs: strings PURL_REGEX does not match, and strings it matches
\* with the version present, absent, empty, percent-encoded or cut short
PurlSamples ==
    { <<"n", "o", "t", "-", "a", "-", "p", "u", "r", "l">>,
      <<>>,
      <<"p", "k", "g", ":", "c", "a", "r", "g", "o">>,
      <<"p", "k", "g", ":", "/", "f">>,
      <<"p", "k", "g", ":", "c", "a", "r", "g", "o", "/">>,
      <<"p", "k", "g", ":", "c", "-", "d", "/", "f">>,
      <<"p", "k", "g", ":", "n", "p", "m", "/", "@", "s", "/", "n">>,
      <<"p", "k", "g", ":", "c", "a", "r", "g", "o", "/", "f", "@", "1", ".", "0">>,
      <<"p", "k", "g", ":", "c", "a", "r", "g", "o", "/", "g">>,
      <<"p", "k", "g", ":", "c", "a", "r", "g", "o", "/", "g", "@">>,
      <<"p", "k", "g", ":", "c", "a", "r", "g", "o", "/", "f", "@", "v", "1">>,
      <<"p", "k", "g", ":", "c", "a", "r", "g", "o", "/", "f", "@", "1", ".", "0", "-", "r", "c">>,
      <<"p", "k", "g", ":", "c", "a", "r", "g", "o", "/", "f", "%", "2", "D", "g", "@", "1", "%", "2", "E", "0">>,
      <<"p", "k", "g", ":", "p", "y", "p", "i", "/", "p", "@", "1", ".", "0">>,
      <<"p", "k", "g", ":", "g", "i", "t", "h", "u", "b", "/", "o", "/", "r", "@", "a", "b", "c">>,
      <<"p", "k", "g", ":", "g", "i", "t", "h", "u", "b", "a", "c", "t", "i", "o", "n", "s", "/", "a", "/", "b", "@", "v", "4">> }

\* the version key of the SBOM entry: absent, plain, percent-encoded
AuxVersions ==
    {None, Some(<<"2", ".", "0">>), Some(<<"3", "%", "2", "E", "4">>)}

\* the package lists of the runs: every list of at most MaxPackages entries
\* of SbomPackages, and every list of one entry made of a sample
SbomLists ==
    PackageLists(MaxPackages) \cup
    {<<SbomPackage(purl, version)>> : purl \in PurlSamples, version \in AuxVersions}

\* entries of a version history
Crate(num, created_at, published_by) ==
    [num |-> num, created_at |-> created_at, published_by |-> published_by]

CRATE_20 ==
    Crate(<<"2", ".", "0">>, <<2024, 5, 6, 7, 8, 9, 123456, 0>>,
          Some([login |-> Some(<<"b", "o", "b">>)]))

CRATE_10 == Crate(<<"1", ".", "0">>, <<2023, 1, 2, 3, 4, 5, 6, 60>>, None)

\* an entry whose created_at has no time part
CRATE_BAD_DATE == Crate(<<"1", ".", "0">>, <<2023, 1, 2>>, None)

\* a body of the top-level response
TopBody(repository, homepage, versions) ==
    [crate |-> Some([repository |-> repository, homepage |-> homepage]),
     versions |-> versions]

User(login, name) == [login |-> login, name |-> name]

ALICE == User(Some(<<"a", "l", "i", "c", "e">>), Some(<<"A", "l">>))

BOB == User(Some(<<"b", "o", "b">>), Some(<<"B", "o">>))

\* an entry without the name key
USER_BAD == User(Some(<<"b", "o", "b">>), None)

UsersBody(users) == [users |-> users]

Day(n) == [downloads |-> Some(n)]

\* an entry without the downloads key
DAY_BAD == [downloads |-> None]

\* a body of the downloads response: {"meta": {"extra_downloads": [...]}}
DownloadsBody(extra_downloads) ==
    [meta |-> Some([extra_downloads |-> extra_downloads])]

TEN_DAYS ==
    <<Day(1), Day(2), Day(3), Day(4), Day(5), Day(6), Day(7), Day(8), Day(9),
      Day(10)>>

\* What the registry can answer in one run: a set of answers for each of
\* the three requests.  Each registry varies one part of the answers.
Registry(top, owners_, downloads) ==
    [top |-> top, owners |-> owners_, downloads |-> downloads]

\* the repository and the homepage vary
RegistryUrls ==
    Registry({Raises} \cup
             {Response(200, Some(TopBody(r, h, Some(<<CRATE_20, CRATE_10>>)))) :
                 r \in {None, Some(URL_A), Some(URL_BAD)},
                 h \in {None, Some(URL_B)}},
             {Raises},
             {Response(500, None)})

\* the version history varies
RegistryVersions ==
    Registry({Response(500, None), Response(200, None)} \cup
             {Response(200, Some(TopBody(Some(URL_A), None, v))) :
                 v \in {None, Some(<<>>), Some(<<CRATE_20, CRATE_10>>),
                        Some(<<CRATE_10, CRATE_20>>), Some(<<CRATE_BAD_DATE>>)}},
             {Response(500, None), Response(200, Some(UsersBody(Some(<<ALICE>>))))},
             {Response(500, None)})

\* the owners vary
RegistryOwners ==
    Registry({Response(200, Some(TopBody(Some(URL_A), None,
                                         Some(<<CRATE_20, CRATE_10>>))))},
             {Raises, Response(500, None), Response(200, None)} \cup
             {Response(200, Some(UsersBody(u))) :
                 u \in {None, Some(<<ALICE, BOB>>), Some(<<ALICE, USER_BAD>>)}},
             {Response(500, None), Response(200, Some(DownloadsBody(Some(TEN_DAYS))))})

\* the downloads vary
RegistryDownloads ==
    Registry({Response(200, Some(TopBody(Some(URL_A), None,
                                         Some(<<CRATE_20, CRATE_10>>))))},
             {Response(500, None)},
             {Raises, Response(500, None), Response(200, None)} \cup
             {Response(200, Some(DownloadsBody(d))) :
                 d \in {None, Some(<<Day(4), DAY_BAD>>), Some(TEN_DAYS)}})

\* the form of the repository URL varies
RegistryPaths ==
    Registry({Response(200, Some(TopBody(Some(u), None, Some(<<CRATE_20, CRATE_10>>)))) :
                 u \in {URL_A, URL_B, URL_LABELS, URL_DASH, URL_NAMES}},
             {Response(500, None)},
             {Response(500, None)})

\* the number of daily entries varies
RegistryDays ==
    Registry({Response(200, Some(TopBody(Some(URL_A), None,
                                         Some(<<CRATE_20, CRATE_10>>))))},
             {Response(500, None)},
             {Response(200, Some(DownloadsBody(Some(SubSeq(TEN_DAYS, 1, n))))) :
                 n \in {0, 1, 6, 7, 8, 10}} \cup
             {Response(200, Some(DownloadsBody(Some(SubSeq(TEN_DAYS, 1, 7) \o
                                                    <<DAY_BAD>>))))})

Registries ==
    {RegistryUrls, RegistryVersions, RegistryOwners, RegistryDownloads,
     RegistryPaths, RegistryDays}

\* ------------------------------------------------------------------------
\* State
\* ------------------------------------------------------------------------
VARIABLES
    packages,         \* main: the list parser.get_packages() returned
    done,             \* main: the number of entries the for loop has taken
    pc,               \* the position of the single thread of control
    pkg,              \* main: the Package under construction
    i,                \* fill_package_metadata: the loop variable
    inflight,         \* the requests sent to the registry and not yet answered
    parsed_packages,  \* main: the rows built so far
    output,           \* None, or Some(the rows handed to the csv writer)
    log,              \* the warnings logged since pkg was constructed
    registry,         \* what the registry can answer in this run
    nreq,             \* history: requests issued since pkg was constructed
    count,            \* history: how many of them ended in each way
    last_top          \* history: the last top-level answer with status 200

vars == <<packages, done, pc, pkg, i, inflight, parsed_packages, output, log,
          registry, nreq, count, last_top>>

RequestKinds == {"top", "owners", "downloads"}

\* how a request ended: it raised, returned another status than 200,
\* returned 200 with a body whose processing raised, or returned 200 with a
\* body processed to the end
Outcome(response, step) ==
    IF response.raises THEN "raised"
    ELSE IF response.status_code # 200 THEN "non200"
    ELSE IF step.exc # None THEN "bad200"
    ELSE "ok200"

Outcomes == {"raised", "non200", "bad200", "ok200"}

Noted(kind, outcome) == [count EXCEPT ![kind][outcome] = @ + 1]

NothingYet == [k \in RequestKinds |-> [o \in Outcomes |-> 0]]

packages_headers ==
    <<"PackageType", "PackageName", "Version", "RepoURL", "RepoOwner",
      "RepoName", "PackageOwners", "7DaysDownloads", "LastPackagePushDate",
      "LastPackagePushAuthor">>

\* sep.join(strings)
RECURSIVE Join(_, _)
Join(strings, sep) ==
    IF strings = <<>> THEN <<>>
    ELSE IF Len(strings) = 1 THEN strings[1]
    ELSE strings[1] \o sep \o Join(Tail(strings), sep)

\* the orders in which a set can be iterated
Orders(S) ==
    {f \in [1..Cardinality(S) -> S] :
        \A a, b \in 1..Cardinality(S) : a # b => f[a] # f[b]}

\* Package.owners, for one iteration order of the set
owners(self, order) == Join(order, <<",", " ">>)

\* lines 181-190: the row of a package
Row(self, order) ==
    <<self.package_type, self.name, self.version, self.repo_url,
      self.repo_owner, self.repo_name, owners(self, order), self.downloads,
      IF self.last_push_date # None
      THEN Some(strftime(self.last_push_date[1])) ELSE None,
      self.last_push_author>>

\* a report that leaves out the packages without a repository URL
AppendedRowIfEnriched(rows, self, order) ==
    IF self.repo_url = None THEN rows ELSE Append(rows, Row(self, order))

\* lines 181-190: parsed_packages.append([...])
AppendedRow(rows, self, order) == Append(rows, Row(self, order))

\* a request of the package being processed
Request(kind) == [package |-> done, kind |-> kind]

\* a request that is not waited for
NotAwaited(kind) == inflight

\* requests.get blocks until the answer, or the failure, of its request
Receive(kind) == inflight \ {Request(kind)}

\* the loop without its break: the next iteration follows
LoopGoesOn(attempt) == [pc |-> "fill", i |-> attempt + 1]

\* line 149: break
LoopExit(attempt) == [pc |-> "filled", i |-> attempt]

\* one Package constructed before the loop and used for every entry
SamePackage(previous) == previous

\* line 177: pkg = Package(), whatever pkg was bound to
NewPackage(previous) == Package

Init ==
    /\ packages \in SbomLists
    /\ registry \in Registries
    /\ done = 0
    /\ pc = "main"
    /\ pkg = Package
    /\ i = 0
    /\ inflight = {}
    /\ parsed_packages = <<>>
    /\ output = None
    /\ log = <<>>
    /\ nreq = [k \in RequestKinds |-> 0]
    /\ count = NothingYet
    /\ last_top = None

\* lines 176-180: the next entry of the list; a Package is constructed and
\* from_purl is applied to the locator of the entry's first reference
NextPackage ==
    /\ pc = "main"
    /\ done < Len(packages)
    /\ LET package == packages[done + 1]
       IN  pkg' = from_purl(NewPackage(pkg), package.externalreference[1][3],
                            Some(package))
    /\ done' = done + 1
    /\ i' = 0
    /\ pc' = "fill"
    /\ log' = <<>>
    /\ nreq' = [k \in RequestKinds |-> 0]
    /\ count' = NothingYet
    /\ last_top' = None
    /\ UNCHANGED <<registry, packages, inflight, parsed_packages, output>>

\* an iteration that sends the top-level request whatever the package type
AttemptAnyType ==
    /\ pc = "fill"
    /\ i < MAX_REGISTRY_FAILED_REQUESTS
    /\ inflight' = inflight \cup {Request("top")}
    /\ nreq' = [nreq EXCEPT !["top"] = @ + 1]
    /\ pc' = "top"
    /\ UNCHANGED <<registry, packages, done, pkg, i, parsed_packages, output, log, count,
                   last_top>>

\* lines 107-113: an iteration for a cargo package sends the top-level request
AttemptCargo ==
    /\ pc = "fill"
    /\ i < MAX_REGISTRY_FAILED_REQUESTS
    /\ pkg.package_type = Some(CARGO)
    /\ inflight' = inflight \cup {Request("top")}
    /\ nreq' = [nreq EXCEPT !["top"] = @ + 1]
    /\ pc' = "top"
    /\ UNCHANGED <<registry, packages, done, pkg, i, parsed_packages, output, log, count,
                   last_top>>

\* lines 107-109, 150: an iteration for any other package does nothing
AttemptOther ==
    /\ pc = "fill"
    /\ i < MAX_REGISTRY_FAILED_REQUESTS
    /\ pkg.package_type # Some(CARGO)
    /\ i' = i + 1
    /\ UNCHANGED <<registry, packages, done, pc, pkg, inflight, parsed_packages, output,
                   log, nreq, count,
                   last_top>>

\* line 107: range() is exhausted and fill_package_metadata returns
Exhausted ==
    /\ pc = "fill"
    /\ i = MAX_REGISTRY_FAILED_REQUESTS
    /\ pc' = "filled"
    /\ UNCHANGED <<registry, packages, done, pkg, i, inflight, parsed_packages, output,
                   log, nreq, count,
                   last_top>>

\* lines 151-152: an exception of the attempt reaches the handler, which
\* logs it; the loop goes on with the next i.  An exception the handler
\* does not catch leaves fill_package_metadata and main.
Except(self, lines, exc) ==
    /\ pkg' = self
    /\ IF Caught(exc)
       THEN /\ log' = log \o lines \o <<AttemptWarning(self, i)>>
            /\ i' = i + 1
            /\ pc' = "fill"
       ELSE /\ log' = log \o lines
            /\ i' = i
            /\ pc' = "crashed"

\* lines 113-129: the top-level request ends
TopResponse(response) ==
    /\ pc = "top"
    /\ LET step == IF response.raises \/ response.status_code # 200
                   THEN Step(pkg, <<>>, None) ELSE TopLevel(pkg, response)
       IN  /\ count' = Noted("top", Outcome(response, step))
           /\ last_top' = IF ~response.raises /\ response.status_code = 200
                          THEN Some(response) ELSE last_top
           /\ IF response.raises
              THEN /\ Except(pkg, <<>>, "ConnectionError")
                   /\ inflight' = Receive("top")
                   /\ nreq' = nreq
              ELSE IF response.status_code # 200
              THEN /\ i' = i + 1
                   /\ pc' = "fill"
                   /\ inflight' = Receive("top")
                   /\ UNCHANGED <<pkg, log, nreq>>
              ELSE IF step.exc # None
              THEN /\ Except(step.pkg, step.log, step.exc[1])
                   /\ inflight' = Receive("top")
                   /\ nreq' = nreq
              ELSE /\ pkg' = step.pkg
                   /\ log' = log \o step.log
                   /\ inflight' = Receive("top") \cup {Request("owners")}
                   /\ nreq' = [nreq EXCEPT !["owners"] = @ + 1]
                   /\ pc' = "owners"
                   /\ i' = i
    /\ UNCHANGED <<registry, packages, done, parsed_packages, output>>

\* the owners request in a try block of its own: a failure of the request
\* is logged and the downloads request follows in the same attempt
OwnersResponseOwnTry(response) ==
    /\ pc = "owners"
    /\ LET step == IF response.raises
                   THEN Step(pkg, <<Warning("Error fetching cargo owners",
                                            pkg.name, 0)>>, None)
                   ELSE Owners(pkg, response)
       IN  /\ count' = Noted("owners", Outcome(response, step))
           /\ IF step.exc # None
              THEN /\ Except(step.pkg, step.log, step.exc[1])
                   /\ inflight' = Receive("owners")
                   /\ nreq' = nreq
              ELSE /\ pkg' = step.pkg
                   /\ log' = log \o step.log
                   /\ inflight' = Receive("owners") \cup {Request("downloads")}
                   /\ nreq' = [nreq EXCEPT !["downloads"] = @ + 1]
                   /\ pc' = "downloads"
                   /\ i' = i
    /\ UNCHANGED <<registry, packages, done, parsed_packages, output, last_top>>

\* lines 129-139: the owners request ends
OwnersResponse(response) ==
    /\ pc = "owners"
    /\ LET step == IF response.raises THEN Step(pkg, <<>>, None)
                   ELSE Owners(pkg, response)
       IN  /\ count' = Noted("owners", Outcome(response, step))
           /\ IF response.raises
              THEN /\ Except(pkg, <<>>, "ConnectionError")
                   /\ inflight' = Receive("owners")
                   /\ nreq' = nreq
              ELSE IF step.exc # None
              THEN /\ Except(step.pkg, step.log, step.exc[1])
                   /\ inflight' = Receive("owners")
                   /\ nreq' = nreq
              ELSE /\ pkg' = step.pkg
                   /\ log' = log \o step.log
                   /\ inflight' = Receive("owners") \cup {Request("downloads")}
                   /\ nreq' = [nreq EXCEPT !["downloads"] = @ + 1]
                   /\ pc' = "downloads"
                   /\ i' = i
    /\ UNCHANGED <<registry, packages, done, parsed_packages, output, last_top>>

\* lines 139-149: the downloads request ends; without an exception the
\* break of line 149 leaves the loop
DownloadsResponse(response) ==
    /\ pc = "downloads"
    /\ LET step == IF response.raises THEN Step(pkg, <<>>, None)
                   ELSE Downloads(pkg, response)
       IN  /\ count' = Noted("downloads", Outcome(response, step))
           /\ inflight' = Receive("downloads")
           /\ IF response.raises
              THEN Except(pkg, <<>>, "ConnectionError")
              ELSE IF step.exc # None
              THEN Except(step.pkg, step.log, step.exc[1])
              ELSE /\ pkg' = step.pkg
                   /\ log' = log \o step.log
                   /\ pc' = LoopExit(i).pc
                   /\ i' = LoopExit(i).i
    /\ UNCHANGED <<registry, packages, done, parsed_packages, output, nreq,
                   last_top>>

\* lines 180-190: fill_package_metadata has returned; the row is appended
AppendRow ==
    /\ pc = "filled"
    /\ \E order \in Orders(pkg.lib_owners) :
           parsed_packages' = AppendedRow(parsed_packages, pkg, order)
    /\ pc' = "main"
    /\ UNCHANGED <<registry, packages, done, pkg, i, inflight, output, log, nreq, count,
                   last_top>>

\* lines 191-194: the header and the rows go to the csv writer
WriteReport ==
    /\ pc = "main"
    /\ done = Len(packages)
    /\ output' = Some(<<packages_headers>> \o parsed_packages)
    /\ pc' = "done"
    /\ UNCHANGED <<registry, packages, done, pkg, i, inflight, parsed_packages, log,
                   nreq, count, last_top>>

Next ==
    \/ NextPackage
    \/ AttemptCargo
    \/ AttemptOther
    \/ Exhausted
    \/ \E response \in registry.top : TopResponse(response)
    \/ \E response \in registry.owners : OwnersResponse(response)
    \/ \E response \in registry.downloads : DownloadsResponse(response)
    \/ AppendRow
    \/ WriteReport

Spec == Init /\ [][Next]_vars

\* the thread of control is never held back
FairSpec == Spec /\ WF_vars(Next)

\* ------------------------------------------------------------------------
\* Properties
\* ------------------------------------------------------------------------
\* control is inside fill_package_metadata
InCall == pc \in {"fill", "top", "owners", "downloads"}

\* what is left of the call: the iterations not yet begun, and the steps
\* left in the current one
CallMeasure ==
    4 * (MAX_REGISTRY_FAILED_REQUESTS - i) +
    (CASE pc = "fill" -> 4 [] pc = "top" -> 3 [] pc = "owners" -> 2
       [] pc = "downloads" -> 1 [] OTHER -> 0)

C1_Bounded ==
    /\ i \in 0..MAX_REGISTRY_FAILED_REQUESTS
    /\ nreq["top"] <= MAX_REGISTRY_FAILED_REQUESTS
    /\ pc # "crashed"

C1_NeverStuck == InCall => ENABLED Next

C1_Progress == InCall => CallMeasure' < CallMeasure

\* C1: whatever the registry answers (200, another status, a malformed
\* body, an exception, on any of the three requests), a call of
\* fill_package_metadata ends: inside the call a step is always possible and
\* every step decreases a measure that is never negative; it makes at most 3
\* attempts and at most 3 top-level requests; and no exception of an attempt
\* leaves the call.
C1_EnrichReturns ==
    /\ [](C1_Bounded /\ C1_NeverStuck /\ CallMeasure >= 0)
    /\ [][C1_Progress]_vars

\* the call has returned after three attempts that all failed: one by a
\* status other than 200, two by an exception in the body of a 200 answer
C1_Witness ==
    /\ pc = "filled"
    /\ i = MAX_REGISTRY_FAILED_REQUESTS
    /\ nreq["top"] = MAX_REGISTRY_FAILED_REQUESTS
    /\ count["top"]["non200"] = 1
    /\ count["top"]["bad200"] = 2

\* the requests that ended without an exception
Completed(kind) == count[kind]["ok200"] + count[kind]["non200"]

\* C2 as stated: once a top-level request of the call has returned 200 no
\* further attempt is started, and the call issues the owners request and
\* the downloads request at most once each.
C2_Ok200EndsLoop ==
    /\ pc = "top" => count["top"]["ok200"] + count["top"]["bad200"] = 0
    /\ nreq["owners"] <= 1
    /\ nreq["downloads"] <= 1

\* C2, amended: a top-level 200 ends the retry loop when nothing raises in
\* the rest of its attempt: once a downloads request has ended without an
\* exception the call has returned, and no request follows.  Each top-level
\* 200 whose body is read without an exception is followed by exactly one
\* owners request, and each owners request that ends without an exception
\* by exactly one downloads request; an exception after the 200 starts the
\* next attempt, which issues its requests again.
C2_Ok200EndsLoopUnlessRaise ==
    /\ nreq["owners"] = count["top"]["ok200"]
    /\ nreq["downloads"] = Completed("owners")
    /\ Completed("downloads") <= 1
    /\ Completed("downloads") = 1 => ~InCall /\ inflight = {}

\* a second attempt has issued the owners request again, and the call has
\* returned after its downloads request
C2_Witness ==
    /\ pc = "filled"
    /\ nreq["owners"] = 2
    /\ count["owners"]["raised"] = 1
    /\ Completed("downloads") = 1

\* the first entry of a version history whose num is the given version:
\* None, or Some(entry)
RECURSIVE FirstWithNum(_, _)
FirstWithNum(versions, num) ==
    IF versions = <<>> THEN None
    ELSE IF Head(versions).num = num THEN Some(Head(versions))
    ELSE FirstWithNum(Tail(versions), num)

\* the login of the author of an entry, None without one
AuthorOf(crate) ==
    IF crate.published_by # None THEN crate.published_by[1].login ELSE None

\* this step reads, without an exception, the body of a top-level 200
\* answer that has a version history
ReadsTopLevel(response) ==
    /\ TopResponse(response)
    /\ ~response.raises
    /\ response.status_code = 200
    /\ response.json # None
    /\ response.json[1].versions # None
    /\ pc' = "owners"

\* C3 as stated: for a record with a target version, a top-level 200
\* answer records the date and the author of the first entry of the version
\* history whose num is exactly that version, and leaves both fields as
\* they were (null) when no entry has it.
C3_ExactVersionEntry ==
    [][\A response \in registry.top :
          ReadsTopLevel(response) /\ Truthy(pkg.version) =>
              LET entry == FirstWithNum(response.json[1].versions[1],
                                        pkg.version[1])
              IN  IF entry # None
                  THEN /\ pkg'.last_push_date = strptime(entry[1].created_at)
                       /\ pkg'.last_push_author = AuthorOf(entry[1])
                  ELSE /\ pkg'.last_push_date = pkg.last_push_date
                       /\ pkg'.last_push_author = pkg.last_push_author]_vars

\* C4 as stated: for a record without a target version, a top-level 200
\* answer with a version history that is not empty records the date and
\* the author of the first entry of the history.
C4_FirstEntryWithoutVersion ==
    [][\A response \in registry.top :
          /\ ReadsTopLevel(response)
          /\ ~Truthy(pkg.version)
          /\ response.json[1].versions[1] # <<>>
          => LET entry == Head(response.json[1].versions[1])
             IN  /\ pkg'.last_push_date = strptime(entry.created_at)
                 /\ pkg'.last_push_author = AuthorOf(entry)]_vars

\* C5 as stated: repo_owner and repo_name are set only when the current
\* repo_url is set and matches REPO_URL_REGEX, and then they are its two
\* groups.
C5_OwnerAndNameOfCurrentUrl ==
    pkg.repo_owner # None \/ pkg.repo_name # None =>
        /\ pkg.repo_url # None
        /\ REPO_URL_REGEX(pkg.repo_url[1]) # None
        /\ pkg.repo_owner = Some(REPO_URL_REGEX(pkg.repo_url[1])[1][1])
        /\ pkg.repo_name = Some(REPO_URL_REGEX(pkg.repo_url[1])[1][2])

\* what is left of the run
RunMeasure ==
    IF pc = "done" THEN 0
    ELSE 20 * (Len(packages) - done) + (IF pc = "main" THEN 1 ELSE 2 + CallMeasure)

\* the first three cells of the row of an entry
IdentityCells(package) ==
    LET self == from_purl(Package, package.externalreference[1][3],
                          Some(package))
    IN  <<self.package_type, self.name, self.version>>

\* the cells of a row that enrichment fills, when there is no data
EmptyCells(row) ==
    /\ row[4] = None /\ row[5] = None /\ row[6] = None
    /\ row[7] = <<>> /\ row[8] = 0 /\ row[9] = None /\ row[10] = None

\* no top-level request of the call of the last package returned 200
NoAnswer == count["top"]["ok200"] + count["top"]["bad200"] = 0

C6_Rows ==
    /\ pc # "crashed"
    /\ Len(parsed_packages) = IF InCall \/ pc = "filled" THEN done - 1 ELSE done
    /\ pc = "main" /\ done >= 1 /\ NoAnswer => EmptyCells(parsed_packages[done])
    /\ pc = "done" =>
           /\ Len(parsed_packages) = Len(packages)
           /\ output = Some(<<packages_headers>> \o parsed_packages)
           /\ \A k \in 1..Len(packages) :
                  SubSeq(parsed_packages[k], 1, 3) = IdentityCells(packages[k])

C6_NeverStuck == pc # "done" => ENABLED Next

C6_Step ==
    /\ RunMeasure' < RunMeasure
    /\ Len(parsed_packages') >= Len(parsed_packages)
    /\ SubSeq(parsed_packages', 1, Len(parsed_packages)) = parsed_packages
    /\ Len(parsed_packages') > Len(parsed_packages) =>
           /\ Len(parsed_packages') = done
           /\ SubSeq(parsed_packages'[done], 1, 3) = IdentityCells(packages[done])

\* C6: for every package list and every pattern of registry failures the
\* run goes on to the end (a step is always possible until the report is
\* written, and every step decreases a measure that is never negative) and
\* the report has one row for each entry, in the order of the list, row k
\* with the identity of entry k; a package none of whose attempts got an
\* answer has its row, with empty cells; and a row once appended is never
\* changed.
C6_OneRowPerPackage ==
    /\ [](C6_Rows /\ C6_NeverStuck /\ RunMeasure >= 0)
    /\ [][C6_Step]_vars

\* the report of two cargo packages is written: the first got no answer
\* and has empty cells, the second has its repository URL
C6_Witness ==
    /\ pc = "done"
    /\ Len(packages) = 2
    /\ output[1][2][1] = Some(CARGO)
    /\ EmptyCells(output[1][2])
    /\ output[1][3][4] # None

\* C7: at most one registry request is outstanding at any moment; a
\* request is outstanding only inside the call of fill_package_metadata
\* for the package being processed, while control waits for that very
\* request, so the next request of the package, and every request of the
\* next package, is issued after it has ended.
C7_OneRequestAtATime ==
    /\ Cardinality(inflight) <= 1
    /\ \A r \in inflight : r.package = done /\ r.kind = pc
    /\ ~InCall => inflight = {}

\* the downloads request of the second package is outstanding
C7_Witness == inflight = {[package |-> 2, kind |-> "downloads"]}

\* the numbers of the warnings of the handler, in the order logged
RECURSIVE AttemptNumbers(_)
AttemptNumbers(lines) ==
    IF lines = <<>> THEN <<>>
    ELSE IF Head(lines).what = "Error fetching cargo metadata"
         THEN <<Head(lines).num>> \o AttemptNumbers(Tail(lines))
         ELSE AttemptNumbers(Tail(lines))

\* the call of the last package met a 200 top-level answer, and its owners
\* request and its downloads request both returned another status
OnlyTopLevelAnswered ==
    /\ pc \in {"filled", "main"}
    /\ count["top"]["ok200"] = 1
    /\ nreq["owners"] = 1 /\ count["owners"]["non200"] = 1
    /\ nreq["downloads"] = 1 /\ count["downloads"]["non200"] = 1

\* the repository URL a top-level body gives
UrlOf(data) ==
    IF Truthy(data.crate[1].repository) THEN data.crate[1].repository
    ELSE data.crate[1].homepage

\* C8 as stated: when the top-level request returns 200 and the owners and
\* the downloads requests return another status, the record has the
\* repository URL of the top-level answer and, when that answer has a
\* version history whose first entry has a well-formed date, a last-publish
\* date taken from it; it has no owner and 0 downloads; a warning was
\* logged for each of the two answers; no attempt follows; and the row of
\* the package is appended.
C8_TopLevelDataOnly ==
    OnlyTopLevelAnswered =>
        LET data == last_top[1].json[1]
        IN  /\ Truthy(UrlOf(data)) => pkg.repo_url = UrlOf(data)
            /\ (/\ data.versions # None
                /\ data.versions[1] # <<>>
                /\ strptime(Head(data.versions[1]).created_at) # None)
               => /\ pkg.last_push_date # None
                  /\ \E k \in 1..Len(data.versions[1]) :
                         pkg.last_push_date = strptime(data.versions[1][k].created_at)
            /\ pkg.lib_owners = {}
            /\ pkg.downloads = 0
            /\ \E k \in 1..Len(log) :
                   /\ log[k].what = "Error fetching cargo owners"
                   /\ log[k].name = pkg.name
            /\ \E k \in 1..Len(log) :
                   /\ log[k].what = "Error fetching cargo downloads"
                   /\ log[k].name = pkg.name
            /\ nreq["top"] = i + 1
            /\ pc = "main" => /\ Len(parsed_packages) = done
                              /\ parsed_packages[done] = Row(pkg, <<>>)

\* C9 as stated: each failed attempt of the top-level fetch (an exception
\* of the request, a status other than 200, a malformed body) is logged
\* with its attempt number, so a call whose 3 attempts all fail at the
\* top-level fetch has logged the attempt warnings 1, 2, 3.
C9_EveryFailedAttemptLogged ==
    /\ pc = "filled"
    /\ nreq["top"] = MAX_REGISTRY_FAILED_REQUESTS
    /\ count["top"]["ok200"] = 0
    => AttemptNumbers(log) = <<1, 2, 3>>

C10_Defaults ==
    pc = "filled" /\ count["top"]["raised"] = MAX_REGISTRY_FAILED_REQUESTS =>
        /\ pkg.downloads = 0
        /\ pkg.lib_owners = {}
        /\ pkg.repo_url = None /\ pkg.repo_owner = None /\ pkg.repo_name = None
        /\ pkg.last_push_date = None /\ pkg.last_push_author = None
        /\ nreq["owners"] = 0 /\ nreq["downloads"] = 0

C10_OthersUnaffected ==
    /\ SubSeq(parsed_packages', 1, Len(parsed_packages)) = parsed_packages
    /\ pc = "main" /\ pc' = "fill" =>
           /\ pkg'.downloads = 0
           /\ pkg'.lib_owners = {}
           /\ pkg'.repo_url = None /\ pkg'.repo_owner = None
           /\ pkg'.repo_name = None
           /\ pkg'.last_push_date = None /\ pkg'.last_push_author = None

\* C10: when the top-level request raises on each of the 3 attempts, the
\* call returns with every enrichment field at its default (0 downloads, no
\* owner, no repository URL, owner or name, no last-publish date or author)
\* and without having issued an owners or a downloads request; and the other
\* packages of the run are unaffected: the rows already built are never
\* changed and the next package starts from the defaults.
C10_AllAttemptsRaise == [](C10_Defaults) /\ [][C10_OthersUnaffected]_vars

\* the second package's three attempts have all raised, after a first
\* package that got its repository URL
C10_Witness ==
    /\ pc = "filled"
    /\ done = 2
    /\ count["top"]["raised"] = MAX_REGISTRY_FAILED_REQUESTS
    /\ parsed_packages[1][4] # None

\* this step hands the URL of a top-level 200 body to set_repo_url
Classifies(response) ==
    /\ TopResponse(response)
    /\ ~response.raises
    /\ response.status_code = 200
    /\ response.json # None
    /\ response.json[1].crate # None

\* the lines this step logs
NewLines == SubSeq(log', Len(log) + 1, Len(log'))

\* set_repo_url can derive no owner and name from the URL: it is null or
\* empty, or it does not match REPO_URL_REGEX
Unusable(url) == ~Truthy(url) \/ REPO_URL_REGEX(url[1]) = None

\* C11 as stated: whenever set_repo_url is given a URL that is null or
\* empty or does not match REPO_URL_REGEX, it logs a warning that names the
\* package, it sets neither repo_owner nor repo_name, and no exception
\* leaves the call.
C11_UnusableUrlWarned ==
    [][\A response \in registry.top :
          Classifies(response) /\ Unusable(UrlOf(response.json[1])) =>
              /\ \E k \in 1..Len(NewLines) :
                     /\ NewLines[k].what = "Invalid repo URL"
                     /\ NewLines[k].name = pkg.name
              /\ pkg'.repo_owner = pkg.repo_owner
              /\ pkg'.repo_name = pkg.repo_name
              /\ pc' # "crashed"]_vars

\* the parts of s between the occurrences of c
RECURSIVE Split(_, _)
Split(s, c) ==
    IF RunLenNot(s, c) = Len(s) THEN <<s>>
    ELSE <<SubSeq(s, 1, RunLenNot(s, c))>> \o Split(Drop(s, RunLenNot(s, c) + 1), c)

\* the host and the path segments of a URL that begins with https://
UrlParts(u) == Split(Drop(u, Len(HttpsPrefix)), "/")

\* u has the form https://<host>/<owner>/<repo>[/<extra-path>]: a host, two
\* path segments that are not empty, and anything after them
HasUrlForm(u) ==
    /\ HasPrefix(u, HttpsPrefix)
    /\ Len(UrlParts(u)) >= 3
    /\ \A k \in 1..3 : UrlParts(u)[k] # <<>>

\* C12 as stated: whenever set_repo_url is given a URL of the form
\* https://<host>/<owner>/<repo>[/<extra-path>], whatever the host and the
\* extra path, repo_owner becomes the first path segment and repo_name the
\* second.
C12_FirstTwoSegments ==
    [][\A response \in registry.top :
          /\ Classifies(response)
          /\ Truthy(UrlOf(response.json[1]))
          /\ HasUrlForm(UrlOf(response.json[1])[1])
          => /\ pkg'.repo_owner = Some(UrlParts(UrlOf(response.json[1])[1])[2])
             /\ pkg'.repo_name = Some(UrlParts(UrlOf(response.json[1])[1])[3])]_vars

Min(a, b) == IF a <= b THEN a ELSE b

\* the daily entries of a downloads answer with status 200 whose body has
\* the list, the entries of the window all with a downloads value: None, or
\* Some(list)
DailyEntries(response) ==
    IF /\ ~response.raises
       /\ response.status_code = 200
       /\ response.json # None
       /\ response.json[1].meta # None
       /\ response.json[1].meta[1].extra_downloads # None
       /\ \A k \in 1..Min(Len(response.json[1].meta[1].extra_downloads[1]),
                         DOWNLOADS_DEPTH_DAYS) :
              response.json[1].meta[1].extra_downloads[1][k].downloads # None
    THEN response.json[1].meta[1].extra_downloads
    ELSE None

\* the sum of the downloads values of the first n entries
RECURSIVE SumOfFirst(_, _)
SumOfFirst(days, n) ==
    IF n = 0 THEN 0 ELSE SumOfFirst(days, n - 1) + days[n].downloads[1]

\* C13: when the downloads request returns 200 with a list of n daily
\* entries, the download count of the record after the request is the sum
\* of the downloads values of the first min(n, 7) entries, in the order
\* returned, whatever the count was before; the entries from the eighth on
\* do not contribute, and are not read.
C13_FirstSevenDays ==
    [][\A response \in registry.downloads :
          DownloadsResponse(response) /\ DailyEntries(response) # None =>
              pkg'.downloads =
                  SumOfFirst(DailyEntries(response)[1],
                             Min(Len(DailyEntries(response)[1]),
                                 DOWNLOADS_DEPTH_DAYS))]_vars

\* the call has returned after a downloads answer of ten daily entries,
\* 1 to 10 downloads: the count is 28, the sum of the first seven
C13_Witness ==
    /\ pc = "filled"
    /\ registry = RegistryOwners
    /\ count["downloads"]["ok200"] = 1
    /\ pkg.downloads = 28

\* control is in fill_package_metadata, or has just returned from it
Enriching == InCall \/ pc = "filled"

\* the record as from_purl left it, before fill_package_metadata was called
Parsed(package) ==
    from_purl(Package, package.externalreference[1][3], Some(package))

\* C14: for a record whose package type is not cargo (another type, or
\* none when the package URL did not parse) fill_package_metadata is a
\* no-op: during the call and when it has returned no request has been
\* issued, none is outstanding, nothing has been logged and every field of
\* the record is as it was when the call began.
C14_OtherTypesUntouched ==
    Enriching /\ pkg.package_type # Some(CARGO) =>
        /\ \A kind \in RequestKinds : nreq[kind] = 0
        /\ inflight = {}
        /\ log = <<>>
        /\ pc \in {"fill", "filled"}
        /\ pkg = Parsed(packages[done])

\* the call has returned for a package of another type than cargo
C14_Witness ==
    /\ pc = "filled"
    /\ i = MAX_REGISTRY_FAILED_REQUESTS
    /\ pkg.package_type # None
    /\ pkg.package_type # Some(CARGO)

\* the locator of the first external reference of an SBOM entry
PurlOf(package) == package.externalreference[1][3]

\* ecosystem, name and version are all null
NoIdentity(self) ==
    self.package_type = None /\ self.name = None /\ self.version = None

\* the entry of the list that is being processed, or was processed last
Current == packages[done]

C15_Parse ==
    Enriching /\ PURL_REGEX(PurlOf(Current)) = None =>
        /\ NoIdentity(pkg)
        /\ NoIdentity(from_purl(Package, PurlOf(Current), None))
        /\ pc # "crashed"

C15_Report ==
    pc = "done" =>
        \A k \in 1..Len(packages) :
            PURL_REGEX(PurlOf(packages[k])) = None =>
                /\ Len(output[1]) = Len(packages) + 1
                /\ output[1][k + 1] = Row(Package, <<>>)

\* C15: for a string PURL_REGEX does not match, from_purl raises nothing
\* and leaves package type, name and version null, with an SBOM entry
\* supplied (as main does) or without one; the record goes through
\* fill_package_metadata, and at the end of the run the report has its row,
\* with every cell empty and 0 downloads.
C15_UnparsedHasNoIdentity == C15_Parse /\ C15_Report

\* the report is written for a list whose only entry has a locator that
\* is no package URL and a version key
C15_Witness ==
    /\ pc = "done"
    /\ Len(packages) = 1
    /\ PURL_REGEX(PurlOf(packages[1])) = None
    /\ packages[1].version # None
    /\ Len(output[1]) = 2

\* the version segment of a package URL PURL_REGEX matches: its group 3,
\* the characters of [0-9a-fA-F.%] that follow the name and its optional @
VersionSegment(purl) == PURL_REGEX(purl)[1][3]

Issues(kind) == nreq'[kind] = nreq[kind] + 1

\* this step ends a request of the kind in the way given
Ends(kind, outcome) == count'[kind][outcome] = count[kind][outcome] + 1

C17_OwnersAfterTop200 ==
    Issues("owners") =>
        /\ pc = "top" /\ pc' = "owners" /\ i' = i
        /\ Ends("top", "ok200")
        /\ last_top' # None /\ last_top'[1].status_code = 200
        /\ inflight' = {Request("owners")}

C17_DownloadsAfterOwners ==
    Issues("downloads") =>
        /\ pc = "owners" /\ pc' = "downloads" /\ i' = i
        /\ Ends("owners", "ok200") \/ Ends("owners", "non200")
        /\ inflight' = {Request("downloads")}

C17_Non200EndsAttempt ==
    Ends("top", "non200") =>
        /\ pc = "top" /\ pc' = "fill" /\ i' = i + 1
        /\ pkg' = pkg
        /\ nreq' = nreq
        /\ inflight' = {}

\* C17: the owners request is issued only by the step that receives the
\* 200 answer of the top-level request of the same attempt, and the
\* downloads request only by the step in which the owners request of the
\* same attempt ends without an exception, with status 200 or another; a
\* top-level answer with another status than 200 ends its attempt with no
\* request issued and no field of the record changed.
C17_RequestOrder ==
    [][/\ C17_OwnersAfterTop200
       /\ C17_DownloadsAfterOwners
       /\ C17_Non200EndsAttempt
       /\ \A kind \in RequestKinds : nreq'[kind] # nreq[kind] =>
              Issues(kind) \/ (pc = "main" /\ nreq'[kind] = 0)]_vars

\* after an attempt whose top-level answer had another status than 200, a
\* later attempt has issued its downloads request
C17_Witness ==
    /\ pc = "downloads"
    /\ count["top"]["non200"] >= 1
    /\ count["owners"]["non200"] = 1
    /\ i >= 1

\* the daily entries of the body of a downloads answer; none when the body
\* has no list
EntriesOf(data) ==
    IF data.meta = None THEN <<>>
    ELSE IF data.meta[1].extra_downloads = None THEN <<>>
    ELSE data.meta[1].extra_downloads[1]

\* the sums of the prefixes of at most 7 entries of one list of daily
\* entries, as far as the entries have a downloads value
PrefixSums(days) ==
    {SumOfFirst(days, n) :
        n \in {m \in 0..Min(Len(days), DOWNLOADS_DEPTH_DAYS) :
                  \A k \in 1..m : days[k].downloads # None}}

\* this step reads the body of a downloads answer with status 200
ReadsDownloads(response) ==
    /\ DownloadsResponse(response)
    /\ ~response.raises
    /\ response.status_code = 200
    /\ response.json # None

C18_OneResponse ==
    \/ pkg.downloads = 0
    \/ \E response \in registry.downloads :
          /\ ~response.raises /\ response.status_code = 200
          /\ response.json # None
          /\ pkg.downloads \in PrefixSums(EntriesOf(response.json[1]))

C18_Step ==
    /\ \A response \in registry.downloads :
           ReadsDownloads(response) =>
               pkg'.downloads \in PrefixSums(EntriesOf(response.json[1]))
    /\ pkg'.downloads # pkg.downloads =>
           \/ \E response \in registry.downloads : ReadsDownloads(response)
           \/ pc = "main" /\ pkg'.downloads = 0

\* C18: at every moment of fill_package_metadata and after it the download
\* count of the record is 0 or the sum of a prefix of at most 7 entries of
\* one downloads answer: the step that reads a downloads answer leaves a sum
\* of a prefix of that answer alone, whatever the count was after the
\* attempts before, no other step of the call changes the count, and a new
\* record starts at 0.
C18_NeverAddedAcrossAttempts == []C18_OneResponse /\ [][C18_Step]_vars

\* the call has returned with the sum of the first 7 entries of the answer
\* of its last attempt, after an attempt whose summation stopped at an entry
\* without a downloads value and left 4
C18_Witness ==
    /\ pc = "filled"
    /\ registry = RegistryDownloads
    /\ count["downloads"]["bad200"] >= 1
    /\ count["downloads"]["ok200"] = 1
    /\ pkg.downloads = 28

====
